---- MODULE Spec2Model ----
(***************************************************************************)
(* Printer_SNMP_Management: the agent's ServerIntegration client           *)
(* (FrontEnd/dockerfile.frontend, agent_integration.py) against the        *)
(* central server's registration and data-ingestion handlers               *)
(* (Server/routes/agents.js, Server/routes/data.js, middleware/auth.js,    *)
(* models/db.js).                                                          *)
(*                                                                         *)
(* Every awaited database query of a handler is one atomic step, so two    *)
(* handlers interleave exactly where the JavaScript awaits.  A client call *)
(* is synchronous: it posts a request and blocks until the answer, an      *)
(* error or the 10 s timeout; after a timeout the handler it started keeps *)
(* running on the server, with nobody waiting for its answer.              *)
(***************************************************************************)
EXTENDS Integers, Sequences, FiniteSets, Bags, TLC

\* ------------------------------------------------------------------ bounds
MaxKeys == 3        \* api keys generateApiKey() may hand out in one run
MaxFaults == 2      \* transport / database / disk faults in one run
MaxCalls == 3       \* client calls in one run of Spec
MaxRegCalls == 3    \* client calls in one run of SpecReg
MaxPushes == 3      \* client calls in one run of SpecPush
MaxOtherPushes == 1 \* pushes of the other agent in one run of SpecSync
MaxPulls == 3       \* client calls in one run of SpecConfig and SpecAnswers
MaxTicks == 3       \* timer ticks in one run of SpecSched and SpecScan
MaxSchedCalls == 2  \* client calls in one run of SpecSched
MaxRaw == 3         \* requests in one run of SpecRaw
MaxUsers == 3       \* rows the users table gets in one run of SpecUsers
MaxUserCalls == 5   \* logins and user-management requests in one run of SpecUsers
MaxLogins == 3      \* login() calls in one run of SpecWeb
MaxMounts == 2      \* page loads (mounts of AuthProvider) in one run of SpecWeb

\* ------------------------------------------------------------- value sets
None == "None"      \* Python None / JS undefined / SQL NULL
NoFile == "NoFile"  \* agent_key.txt does not exist
Raise == "Raise"    \* an exception leaving a block
Missing == "Missing"  \* a string key a dict does not have
NoCount == -1       \* None in an integer field
Absent == 0         \* a timestamp key a dict does not have (timestamps are 1, 2, ...)
NoId == 0           \* no printer id (ids are 1, 2, ...)

Clients == {"c1", "c2"}
Names == {"site", "site2"}
KeyNames == <<"k1", "k2", "k3", "k4", "k5">>

NoReq == [kind |-> "none"]

\* toner_levels: None, a dict, or the JSON text of a dict
NoToner == [t |-> "none", v |-> 0]
TonerDict(v) == [t |-> "dict", v |-> v]
TonerText(v) == [t |-> "text", v |-> v]

\* the printer_data dicts a caller passes to send_printer_data
PrinterData(ip, serial, model, name) ==
  [ip_address |-> ip, serial_number |-> serial, model |-> model, name |-> name]

PrinterInputs ==
  { PrinterData("10.0.0.1", "SN1", "LaserJet", None),
    PrinterData("10.0.0.1", None, "OfficeJet", "Front desk"),
    PrinterData("10.0.0.2", None, None, None),
    PrinterData(Missing, "SN3", None, None) }

\* the metrics_data dicts a caller holds: one without a timestamp and with a
\* toner dict, one stamped by the caller and without toner levels
MetricsData(ts, pages, toner, status, err) ==
  [timestamp |-> ts, page_count |-> pages, toner_levels |-> toner, status |-> status,
   error_state |-> err]

SampleInputs ==
  << MetricsData(Absent, 100, TonerDict(75), "ready", None),
     MetricsData(1, NoCount, NoToner, "offline", None) >>

\* no payload yet
NoSample == MetricsData(Absent, NoCount, NoToner, None, None)

PrinterIds == {1, 2}

VARIABLES
  agents,      \* server table agents: set of [id, agent_id, api_key, name]
  agentSeq,    \* agents.id SERIAL
  keyCtr,      \* uuids handed out by generateApiKey
  printers,    \* server table printers: set of rows
  printerSeq,  \* printers.id SERIAL
  metrics,     \* server table metrics: sequence of rows, in insertion order
  pending,     \* the request each client is blocked on, as its handler stands
  orphans,     \* bag of handlers whose client has given up
  api_key,     \* ServerIntegration.api_key, per client
  registered,  \* ServerIntegration.registered, per client
  keyFile,     \* contents of agent_key.txt, per client
  samples,     \* the metrics_data dicts the caller holds, per client
  clock,       \* datetime.now()
  cpc,         \* where each client is: "idle", the call it waits in, "crashed"
  lastRet,     \* what the last call of each client returned
  before,      \* history: the dict the last send_metrics call was given, and
               \* the payload the attempt before it sent for the same dict
  tried,       \* history: the payload last sent for each dict
  faults,      \* faults that may still happen
  calls,       \* calls that may still be made
  issued,      \* history: tokens the server has answered with, per agent_id
  acked,       \* history: the pushes a client call reported as successful
  agent_configs,  \* server table agent_configs: a row or NoConfig, per agents.id
  config,      \* the AgentConfig in force, per client
  loaded,      \* the agent has read its configuration file
  running,     \* cycles in progress, per timer
  ticks,       \* ticks each timer has delivered
  cycles,      \* cycles each timer has started
  subnets,     \* the subnets the agent scans
  todo,        \* hosts the running cycle has still to probe, per timer
  store_printers,  \* Local Store: set of PrinterIdentity
  store_metrics,   \* Local Store: bag of MetricSample
  probes,      \* history: what each probed address answered to the identity OIDs
  polls,       \* history: how each poll of a printer ended, per polling cycle
  users,       \* server table users: set of [id, role, password]
  userSeq,     \* users.id SERIAL
  tokens,      \* the JWT payloads jwt.sign has issued and that have not expired
  deleting,    \* DELETE /users/:id handlers between their COUNT and their DELETE
  actor,       \* history: the JWT payload the last user-management step ran under, its answer
  stored,      \* browser: localStorage 'token'
  header,      \* browser: axios.defaults.headers.common['Authorization']
  currentUser, \* browser: AuthProvider state currentUser
  isAuthenticated,  \* browser: AuthProvider state isAuthenticated
  loading,     \* browser: AuthProvider state loading
  error,       \* browser: AuthProvider state error
  checkAuth,   \* browser: where checkAuth is, and the token its request carries
  login,       \* browser: the login() calls waiting for their answer
  logins,      \* browser: login() calls made
  mounts       \* browser: page loads so far

vars == <<agents, agentSeq, keyCtr, printers, printerSeq, metrics, pending, orphans,
          api_key, registered, keyFile, samples, clock, cpc, lastRet, before,
          tried, faults, calls, issued, acked, agent_configs, config, loaded, running,
          ticks, cycles, subnets, todo, store_printers, store_metrics, probes, polls,
          users, userSeq, tokens, deleting, actor, stored, header, currentUser,
          isAuthenticated, loading, error, checkAuth, login, logins, mounts>>

regVars == <<agents, agentSeq, keyCtr>>
dataVars == <<printers, printerSeq, metrics>>
serverVars == <<agents, agentSeq, keyCtr, printers, printerSeq, metrics>>
clientVars == <<api_key, registered, keyFile>>
localVars == <<samples, clock, before, tried>>
configVars == <<agent_configs, config>>
\* what no step of registration, ingestion or a push touches
schedVars == <<loaded, running, ticks, cycles>>

scanVars == <<subnets, todo, store_printers, store_metrics, probes, polls>>

userVars == <<users, userSeq, tokens, deleting, actor>>

browserVars == <<stored, header, currentUser, isAuthenticated, loading, error, checkAuth, login,
                 logins, mounts>>

extraVars == <<configVars, schedVars, scanVars, userVars, browserVars>>
\* what no handler step touches
notServer == <<api_key, registered, keyFile, samples, clock, before, tried, cpc, lastRet,
               calls, acked>>

\* ----------------------------------------------------------------- helpers
\* a plausible slip: a key the object does not have is not looked at
TruthyUnlessNull(v) == v \notin {None, "", NoFile}

\* Python / JS truthiness of the string-like values of the model
Truthy(v) == v \notin {None, "", NoFile, Missing}

\* _load_agent_id (636-650): the uuid of agent_id.txt
agent_id(c) == IF c = "c1" THEN "a1" ELSE "a2"
AgentIds == {agent_id(c) : c \in Clients}

\* a body that carries no configuration
NoConfig == [none |-> TRUE]

\* the fields of a configuration (data.js 119-124)
ConfigFields == {"polling_interval", "discovery_interval", "snmp_community", "snmp_timeout"}

AgentConfig(polling, discovery, community, timeout) ==
  [polling_interval |-> polling, discovery_interval |-> discovery,
   snmp_community |-> community, snmp_timeout |-> timeout]

Response(status, token, printer_id) ==
  [status |-> status, token |-> token, printer_id |-> printer_id, config |-> NoConfig]

\* res.json(<configuration>)
ConfigResponse(cfg) == [Response(200, None, NoId) EXCEPT !.config = cfg]

\* requests.post raised instead of returning an answer
Raised == Response(0, None, NoId)

Handler(kind, body) ==
  [kind |-> kind, pc |-> "new", body |-> body, loc |-> [agent |-> 0, found |-> NoId, key |-> None],
   resp |-> Raised]

\* where a handler is: the one a client waits for, or one of the orphans
Places == Clients \cup {"orphan"}
Handled(w) == IF w \in Clients
                THEN IF pending[w] = NoReq THEN {} ELSE {pending[w]}
                ELSE BagToSet(orphans)

\* handler h at w becomes h2 (NoReq: it is over)
Put(w, h, h2) ==
  IF w \in Clients
    THEN /\ pending' = [pending EXCEPT ![w] = h2]
         /\ UNCHANGED orphans
    ELSE /\ orphans' = (orphans (-) SetToBag({h})) (+)
                       (IF h2 = NoReq THEN EmptyBag ELSE SetToBag({h2}))
         /\ UNCHANGED pending

\* res.status(...).json(...): the answer waits for the client blocked on it and
\* goes nowhere when the client has given up
Answer(w, h, resp) ==
  IF w \in Clients THEN [h EXCEPT !.pc = "done", !.resp = resp] ELSE NoReq

\* ------------------------------------------------- server: agents/register
\* generateApiKey (agents.js 13-15): a fresh uuid
generateApiKey == KeyNames[keyCtr + 1]

AgentRows(aid) == {r \in agents : r.agent_id = aid}

\* agents.js 37-53, 67: validation, then SELECT * FROM agents WHERE agent_id = $1;
\* the continuation takes the key of the row or generates one
RegisterSelect(w, h) ==
  /\ h.kind = "register" /\ h.pc = "new"
  /\ IF ~Truthy(h.body.agent_id) \/ ~Truthy(h.body.name)
       THEN /\ Put(w, h, Answer(w, h, Response(400, None, NoId)))
            /\ UNCHANGED keyCtr
       ELSE IF AgentRows(h.body.agent_id) # {}
         THEN /\ Put(w, h, [h EXCEPT !.pc = "update",
                     !.loc.key = (CHOOSE r \in AgentRows(h.body.agent_id) : TRUE).api_key])
              /\ UNCHANGED keyCtr
         ELSE /\ keyCtr < MaxKeys
              /\ Put(w, h, [h EXCEPT !.pc = "insert", !.loc.key = generateApiKey])
              /\ keyCtr' = keyCtr + 1
  /\ UNCHANGED <<extraVars, agents, agentSeq, dataVars, notServer, faults, issued>>

\* agents.js 56-62: UPDATE agents SET name = ... WHERE agent_id = $6
UpdateAgent(rows, body) ==
  {IF r.agent_id = body.agent_id THEN [r EXCEPT !.name = body.name] ELSE r : r \in rows}

\* a plausible slip: the reconnect branch answers with a newly generated key
FreshToken(h) == generateApiKey

\* agents.js 53: apiKey = existingAgent.rows[0].api_key
ExistingToken(h) == h.loc.key

\* agents.js 56-64, 79
RegisterUpdate(w, h) ==
  /\ h.kind = "register" /\ h.pc = "update"
  /\ agents' = UpdateAgent(agents, h.body)
  /\ Put(w, h, Answer(w, h, Response(200, ExistingToken(h), NoId)))
  /\ issued' = [issued EXCEPT ![h.body.agent_id] = @ \cup {ExistingToken(h)}]
  /\ UNCHANGED <<extraVars, agentSeq, keyCtr, dataVars, notServer, faults>>

\* a plausible slip: the agents table without its unique key on agent_id
AgentNoConstraint(rows, aid) == TRUE

\* models/db.js 34: agent_id VARCHAR(100) UNIQUE NOT NULL
AgentUnique(rows, aid) == \A r \in rows : r.agent_id # aid

\* agents.js 69-79: INSERT INTO agents ...; a unique violation throws and the
\* catch answers 500.  The SERIAL id is consumed either way.
RegisterInsert(w, h) ==
  /\ h.kind = "register" /\ h.pc = "insert"
  /\ agentSeq' = agentSeq + 1
  /\ IF AgentUnique(agents, h.body.agent_id)
       THEN /\ agents' = agents \cup {[id |-> agentSeq + 1, agent_id |-> h.body.agent_id,
                                       api_key |-> h.loc.key, name |-> h.body.name]}
            /\ Put(w, h, Answer(w, h, Response(200, h.loc.key, NoId)))
            /\ issued' = [issued EXCEPT ![h.body.agent_id] = @ \cup {h.loc.key}]
       ELSE /\ Put(w, h, Answer(w, h, Response(500, None, NoId)))
            /\ UNCHANGED <<agents, issued>>
  /\ UNCHANGED <<extraVars, keyCtr, dataVars, notServer, faults>>

\* --------------------------------------------------- server: data ingestion
\* a plausible slip: a key that matches no agent is taken for some agent's
AgentByKeyLenient(key) ==
  IF {r \in agents : r.api_key = key} = {} THEN agents ELSE {r \in agents : r.api_key = key}

\* auth.js 51-53: SELECT * FROM agents WHERE api_key = $1
AgentByKey(key) == {r \in agents : r.api_key = key}

\* data.js 113-123: the configuration the server answers a pull of an agent with
ServerConfig(agent) == AgentConfig(300, 86400, "public", 2)

\* authenticateAgent (auth.js 42-70), then the handler up to its first query
\* (data.js 10-19, 55-63, 103-105; data.js 113-123 for the config)
DataAuth(w, h) ==
  /\ h.kind \in {"data", "config"} /\ h.pc = "new"
  /\ Put(w, h,
       IF ~Truthy(h.body.key) THEN Answer(w, h, Response(401, None, NoId))
       ELSE IF AgentByKey(h.body.key) = {} THEN Answer(w, h, Response(403, None, NoId))
       ELSE LET agent == (CHOOSE r \in AgentByKey(h.body.key) : TRUE).id IN
         IF h.kind = "config" THEN Answer(w, h, ConfigResponse(ServerConfig(agent)))
         ELSE IF ~Truthy(h.body.type) \/ ~h.body.hasData
           THEN Answer(w, h, Response(400, None, NoId))
         ELSE IF h.body.type = "metrics"
           THEN [h EXCEPT !.pc = "m_select", !.loc.agent = agent]
         ELSE IF h.body.type \in {"printer_discovery", "printer_update"}
           THEN IF ~Truthy(h.body.data.ip_address)
                  THEN Answer(w, h, Response(400, None, NoId))
                  ELSE [h EXCEPT !.pc = "p_select", !.loc.agent = agent]
         ELSE Answer(w, h, Response(400, None, NoId)))
  /\ UNCHANGED <<extraVars, serverVars, notServer, faults, issued>>

\* a plausible slip: the printer is looked up by its id alone
AnyPrinter(rows, pid, agent) == {r \in rows : r.id = pid}

\* data.js 22-25: SELECT id FROM printers WHERE id = $1 AND agent_id = $2
OwnedPrinter(rows, pid, agent) == {r \in rows : r.id = pid /\ r.agent = agent}

\* data.js 22-29
MetricsSelect(w, h) ==
  /\ h.kind = "data" /\ h.pc = "m_select"
  /\ Put(w, h, IF OwnedPrinter(printers, h.body.printer_id, h.loc.agent) = {}
                 THEN Answer(w, h, Response(404, None, NoId))
                 ELSE [h EXCEPT !.pc = "m_insert"])
  /\ UNCHANGED <<extraVars, serverVars, notServer, faults, issued>>

\* JSON.parse of a request field: the text of a dict parses to the dict; a value
\* that is no text is first turned into "[object Object]", which does not parse
JSONparse(x) == IF x.t = "text" THEN TonerDict(x.v) ELSE [t |-> "throw", v |-> 0]

\* a plausible slip: every row is stamped with the time of its arrival
MetricRowStampedOnArrival(pid, d) ==
  [printer_id |-> pid,
   timestamp |-> clock,
   page_count |-> d.page_count,
   toner_levels |-> IF d.toner_levels # NoToner THEN JSONparse(d.toner_levels) ELSE NoToner,
   status |-> d.status,
   error_state |-> d.error_state]

\* data.js 36-44: the row an INSERT INTO metrics stores for a request body
MetricRow(pid, d) ==
  [printer_id |-> pid,
   timestamp |-> IF d.timestamp # Absent THEN d.timestamp ELSE clock,
   page_count |-> d.page_count,
   toner_levels |-> IF d.toner_levels # NoToner THEN JSONparse(d.toner_levels) ELSE NoToner,
   status |-> d.status,
   error_state |-> d.error_state]

\* a plausible slip: the table keeps the latest sample of each printer only
InsertMetricLatest(rows, row) ==
  Append(SelectSeq(rows, LAMBDA r : r.printer_id # row.printer_id), row)

\* models/db.js 72-81: the metrics table has no key but its SERIAL id
InsertMetric(rows, row) == Append(rows, row)

\* data.js 31-45: INSERT INTO metrics; a JSON.parse that throws answers 500
MetricsInsert(w, h) ==
  LET row == MetricRow(h.body.printer_id, h.body.data) IN
  /\ h.kind = "data" /\ h.pc = "m_insert"
  /\ IF row.toner_levels.t = "throw"
       THEN /\ Put(w, h, Answer(w, h, Response(500, None, NoId)))
            /\ UNCHANGED metrics
       ELSE /\ metrics' = InsertMetric(metrics, row)
            /\ Put(w, h, [h EXCEPT !.pc = "m_update"])
  /\ UNCHANGED <<extraVars, regVars, printers, printerSeq, notServer, faults, issued>>

\* data.js 47-54: UPDATE printers SET status = $1 WHERE id = $2, then 200
MetricsUpdate(w, h) ==
  /\ h.kind = "data" /\ h.pc = "m_update"
  /\ printers' = {IF r.id = h.body.printer_id
                    THEN [r EXCEPT !.status = IF Truthy(h.body.data.status)
                                                THEN h.body.data.status ELSE "unknown"]
                    ELSE r : r \in printers}
  /\ Put(w, h, Answer(w, h, Response(200, None, NoId)))
  /\ UNCHANGED <<extraVars, regVars, printerSeq, metrics, notServer, faults, issued>>

\* data.js 66-69: SELECT id FROM printers WHERE ip_address = $1 AND agent_id = $2
PrinterByIp(rows, ip, agent) == {r \in rows : r.ip_address = ip /\ r.agent = agent}

\* data.js 65-73, 88
PrinterSelect(w, h) ==
  LET rows == PrinterByIp(printers, h.body.data.ip_address, h.loc.agent) IN
  /\ h.kind = "data" /\ h.pc = "p_select"
  /\ Put(w, h, IF rows # {}
                 THEN [h EXCEPT !.pc = "p_update", !.loc.found = (CHOOSE r \in rows : TRUE).id]
                 ELSE [h EXCEPT !.pc = "p_insert"])
  /\ UNCHANGED <<extraVars, serverVars, notServer, faults, issued>>

\* a plausible slip: SET serial_number = $1, without the COALESCE
Overwrite(new, old) == new

\* SQL COALESCE($1, column)
COALESCE(new, old) == IF new # None THEN new ELSE old

\* data.js 75-87, 102: the coalescing UPDATE of the row with the id found
PrinterUpdate(w, h) ==
  LET d == h.body.data IN
  /\ h.kind = "data" /\ h.pc = "p_update"
  /\ printers' = {IF r.id = h.loc.found
                    THEN [r EXCEPT !.serial_number = COALESCE(d.serial_number, @),
                                   !.model = COALESCE(d.model, @),
                                   !.name = COALESCE(d.name, @)]
                    ELSE r : r \in printers}
  /\ Put(w, h, Answer(w, h, Response(200, None, h.loc.found)))
  /\ UNCHANGED <<extraVars, regVars, printerSeq, metrics, notServer, faults, issued>>

\* a plausible slip: the table is created without its UNIQUE constraint
NoConstraint(rows, agent, ip) == TRUE

\* models/db.js 69: UNIQUE(agent_id, ip_address)
PrinterUnique(rows, agent, ip) == PrinterByIp(rows, ip, agent) = {}

\* data.js 89-102: INSERT INTO printers ... RETURNING id; a unique violation
\* throws and the catch answers 500.  The SERIAL id is consumed either way.
PrinterInsert(w, h) ==
  LET d == h.body.data IN
  /\ h.kind = "data" /\ h.pc = "p_insert"
  /\ printerSeq' = printerSeq + 1
  /\ IF PrinterUnique(printers, h.loc.agent, d.ip_address)
       THEN /\ printers' = printers \cup
                 {[id |-> printerSeq + 1, agent |-> h.loc.agent, ip_address |-> d.ip_address,
                   serial_number |-> d.serial_number, model |-> d.model, name |-> d.name,
                   status |-> "unknown"]}
            /\ Put(w, h, Answer(w, h, Response(200, None, printerSeq + 1)))
       ELSE /\ Put(w, h, Answer(w, h, Response(500, None, NoId)))
            /\ UNCHANGED printers
  /\ UNCHANGED <<extraVars, regVars, metrics, notServer, faults, issued>>

\* a query rejects (the database is down, the pool is exhausted): the catch of
\* the handler answers 500 (agents.js 80-83, data.js 106-109, auth.js 66-69)
ServerFault(w, h) ==
  /\ h.pc # "done" /\ faults > 0
  /\ Put(w, h, Answer(w, h, Response(500, None, NoId)))
  /\ faults' = faults - 1
  /\ UNCHANGED <<extraVars, serverVars, notServer, issued>>

\* ------------------------------------------------- client: ServerIntegration
\* _save_api_key (627-634): open(..., "w") truncates, write stores; every error
\* is logged and swallowed
save_api_key(file, key, disk) ==
  CASE disk = "ok" -> key
    [] disk = "open_fails" -> file
    [] disk = "write_fails" -> ""

\* _load_api_key (617-625): the stripped contents of agent_key.txt, or None
load_api_key(file) == IF file = NoFile THEN None ELSE file

\* a plausible slip: only some exception classes are caught
ExceptNarrow(v, failure) == v

\* except Exception as e: ... return <failure value>
Except(v, failure) == IF v = Raise THEN failure ELSE v

Ret(op, val) == [op |-> op, val |-> val]

\* the caller: a returned value brings it back to its loop, an exception that
\* leaves the call ends the process
AfterCall(val) == IF val = Raise THEN "crashed" ELSE "idle"

\* a call that returns without a request
ReturnAtOnce(c, op, val) ==
  /\ lastRet' = [lastRet EXCEPT ![c] = Ret(op, val)]
  /\ cpc' = [cpc EXCEPT ![c] = AfterCall(val)]
  /\ UNCHANGED pending

\* requests.post / requests.get: the request is on its way, the caller blocks
Post(c, op, kind, body) ==
  /\ pending' = [pending EXCEPT ![c] = Handler(kind, body)]
  /\ cpc' = [cpc EXCEPT ![c] = op]
  /\ UNCHANGED lastRet

\* register(), 659-682: build the request and post it
RegisterCall(c) ==
  /\ cpc[c] = "idle" /\ calls > 0
  /\ \E n \in Names :
       Post(c, "register", "register", [agent_id |-> agent_id(c), name |-> n])
  /\ calls' = calls - 1
  /\ UNCHANGED <<extraVars, serverVars, orphans, clientVars, localVars, faults, issued, acked>>

\* a plausible slip: every answer that arrives counts as success
StatusValueAnyAnswer(resp) ==
  Except(IF resp = Raised THEN Raise ELSE "True", "False")

\* the if/else on response.status_code inside the try of register (684-699),
\* send_printer_data (746-755) and send_metrics (813-822)
StatusValue(resp) ==
  Except(IF resp = Raised THEN Raise
         ELSE IF resp.status = 200 THEN "True" ELSE "False", "False")

\* a body that is no JSON: the index.html of the catch-all route
HtmlPage == [html |-> TRUE]

\* response.json() (848) raises on a body that is no JSON
Parses(resp) == resp.config # HtmlPage

\* response.json() (848): the parsed body
json(resp) == resp.config

\* a plausible slip: the body of every answer that arrives is the configuration
ConfigValueAnyAnswer(resp) ==
  Except(IF resp = Raised THEN Raise ELSE "Config", "None")

\* get_server_config, 847-857
ConfigValue(resp) ==
  Except(IF resp = Raised THEN Raise
         ELSE IF resp.status = 200
           THEN IF Parses(resp) THEN "Config" ELSE Raise
           ELSE "None", "None")

ReturnValue(op, resp) == IF op = "get_server_config" THEN ConfigValue(resp)
                         ELSE StatusValue(resp)

\* a plausible slip: registered is assigned the outcome of every attempt
RegisteredByStatus(was, resp) == resp.status = 200

\* a plausible slip: registered is set before the status is looked at
RegisteredAnyStatus(was, resp) == TRUE

\* register(), 684, 690: self.registered = True under status_code == 200
RegisteredAfter(was, resp) == was \/ resp.status = 200

\* a plausible slip: the token is stored before the status is looked at
TokenStoredAnyStatus(resp) == TRUE

\* register(), 684-688: the answer is 200 and 'token' in result
TokenStored(resp) == resp.status = 200 /\ resp.token # None

\* register(), 684-692 on the client's fields
RegisterReturn(c) ==
  LET h == pending[c]
      val == StatusValue(h.resp) IN
  /\ cpc[c] = "register" /\ h # NoReq /\ h.pc = "done"
  /\ pending' = [pending EXCEPT ![c] = NoReq]
  /\ lastRet' = [lastRet EXCEPT ![c] = Ret("register", val)]
  /\ cpc' = [cpc EXCEPT ![c] = AfterCall(val)]
  /\ registered' = [registered EXCEPT ![c] = RegisteredAfter(@, h.resp)]
  /\ IF TokenStored(h.resp)
       THEN /\ api_key' = [api_key EXCEPT ![c] = h.resp.token]
            /\ \E disk \in {"ok", "open_fails", "write_fails"} :
                 /\ disk # "ok" => faults > 0
                 /\ faults' = IF disk = "ok" THEN faults ELSE faults - 1
                 /\ keyFile' = [keyFile EXCEPT ![c] =
                      save_api_key(keyFile[c], h.resp.token, disk)]
       ELSE UNCHANGED <<api_key, keyFile, faults>>
  /\ UNCHANGED <<extraVars, serverVars, orphans, localVars, calls, issued, acked>>

\* a plausible slip: the request is built without a look at the key
send_printer_data_unchecked(c, p) ==
  Post(c, "send_printer_data", "data",
       [key |-> api_key[c], type |-> "printer_discovery", hasData |-> TRUE,
        printer_id |-> NoId, data |-> p])

\* send_printer_data, 717-744
send_printer_data(c, p) ==
  IF ~Truthy(api_key[c])
    THEN ReturnAtOnce(c, "send_printer_data", "False")
  ELSE IF p.ip_address = Missing
    THEN ReturnAtOnce(c, "send_printer_data", Except("False", "False"))
  ELSE Post(c, "send_printer_data", "data",
            [key |-> api_key[c], type |-> "printer_discovery", hasData |-> TRUE,
             printer_id |-> NoId, data |-> p])

\* a caller passes one of its dicts to send_printer_data
SendPrinterDataCall(c) ==
  /\ cpc[c] = "idle" /\ calls > 0
  /\ \E p \in PrinterInputs : send_printer_data(c, p)
  /\ calls' = calls - 1
  /\ UNCHANGED <<extraVars, serverVars, orphans, clientVars, localVars, faults, issued, acked>>

\* json.dumps of a dict
JSONdumps(x) == TonerText(x.v)

\* a plausible slip: the timestamp is set on every call
PrepareRestamp(d, now) ==
  [d EXCEPT !.timestamp = now,
            !.toner_levels = IF @.t = "dict" THEN JSONdumps(@) ELSE @]

\* send_metrics, 785-791: the dict is stamped and its toner dict is replaced by
\* its JSON text, in place
PrepareMetrics(d, now) ==
  [d EXCEPT !.timestamp = IF @ = Absent THEN now ELSE @,
            !.toner_levels = IF @.t = "dict" THEN JSONdumps(@) ELSE @]

\* send_metrics, 775-811, on the i-th dict the caller holds
send_metrics(c, i, pid) ==
  LET d == samples[c][i]
      sent == PrepareMetrics(d, clock) IN
  /\ before' = [before EXCEPT ![c] = [i |-> i, d |-> d, prev |-> tried[c][i]]]
  /\ IF ~Truthy(api_key[c])
       THEN /\ ReturnAtOnce(c, "send_metrics", "False")
            /\ UNCHANGED <<samples, clock, tried>>
       ELSE /\ samples' = [samples EXCEPT ![c][i] = sent]
            /\ tried' = [tried EXCEPT ![c][i] = sent]
            /\ clock' = IF d.timestamp = Absent THEN clock + 1 ELSE clock
            /\ Post(c, "send_metrics", "data",
                    [key |-> api_key[c], type |-> "metrics", hasData |-> TRUE,
                     printer_id |-> pid, data |-> sent])

\* a caller passes one of its dicts and a printer id to send_metrics
SendMetricsCall(c) ==
  /\ cpc[c] = "idle" /\ calls > 0
  /\ \E i \in DOMAIN samples[c], pid \in PrinterIds : send_metrics(c, i, pid)
  /\ calls' = calls - 1
  /\ UNCHANGED <<extraVars, serverVars, orphans, clientVars, faults, issued, acked>>

\* get_server_config, 831-845
GetServerConfigCall(c) ==
  /\ cpc[c] = "idle" /\ calls > 0
  /\ IF ~Truthy(api_key[c])
       THEN ReturnAtOnce(c, "get_server_config", "None")
       ELSE Post(c, "get_server_config", "config", [key |-> api_key[c]])
  /\ calls' = calls - 1
  /\ UNCHANGED <<extraVars, serverVars, orphans, clientVars, localVars, faults, issued, acked>>

\* what a caller counts as delivered: the push a call returned True for
Acknowledge(a, c, h, val) ==
  IF val # "True" \/ h.kind # "data" THEN a
  ELSE IF h.body.type = "metrics"
    THEN [a EXCEPT !.metrics = @ \cup {[client |-> c, printer_id |-> h.body.printer_id,
                                         data |-> h.body.data]}]
    ELSE [a EXCEPT !.printers = @ \cup {[client |-> c, data |-> h.body.data]}]

\* the caller of get_server_config: a configuration that was returned replaces
\* the one in force as a whole; None leaves it
ApplyConfig(old, op, val, resp) ==
  IF op = "get_server_config" /\ val = "Config" THEN json(resp) ELSE old

\* send_printer_data 746-751, send_metrics 813-818, get_server_config 847-853:
\* the answer arrived
CallReturn(c) ==
  LET h == pending[c]
      val == ReturnValue(cpc[c], h.resp) IN
  /\ cpc[c] \in {"send_printer_data", "send_metrics", "get_server_config"}
  /\ h # NoReq /\ h.pc = "done"
  /\ pending' = [pending EXCEPT ![c] = NoReq]
  /\ lastRet' = [lastRet EXCEPT ![c] = Ret(cpc[c], val)]
  /\ cpc' = [cpc EXCEPT ![c] = AfterCall(val)]
  /\ acked' = Acknowledge(acked, c, h, val)
  /\ config' = [config EXCEPT ![c] = ApplyConfig(@, cpc[c], val, h.resp)]
  /\ UNCHANGED <<agent_configs, schedVars, scanVars, userVars, browserVars, serverVars, orphans, clientVars,
                 localVars, faults, calls, issued>>

\* requests.post raises (connection refused, timeout after 10 s): the request
\* never arrived, or its answer is lost, or its handler goes on without the
\* client
TransportError(c) ==
  LET h == pending[c]
      val == ReturnValue(cpc[c], Raised) IN
  /\ cpc[c] \notin {"idle", "crashed"} /\ h # NoReq /\ faults > 0
  /\ \/ /\ h.pc \in {"new", "done"}
        /\ UNCHANGED orphans
     \/ /\ h.pc # "done"
        /\ orphans' = orphans (+) SetToBag({h})
  /\ pending' = [pending EXCEPT ![c] = NoReq]
  /\ lastRet' = [lastRet EXCEPT ![c] = Ret(cpc[c], val)]
  /\ cpc' = [cpc EXCEPT ![c] = AfterCall(val)]
  /\ faults' = faults - 1
  /\ UNCHANGED <<extraVars, serverVars, clientVars, localVars, calls, issued, acked>>

\* the agent process restarts: __init__ (602-615)
Restart(c) ==
  /\ cpc[c] = "idle" /\ calls > 0
  /\ api_key' = [api_key EXCEPT ![c] = load_api_key(keyFile[c])]
  /\ registered' = [registered EXCEPT ![c] = FALSE]
  /\ lastRet' = [lastRet EXCEPT ![c] = Ret("init", None)]
  /\ calls' = calls - 1
  /\ UNCHANGED <<extraVars, serverVars, pending, orphans, keyFile, localVars, cpc, faults,
                 issued, acked>>

\* ----------------------------------------------------------- specifications
\* config.ini as the setup writes it and the operator edits it
\* (setup_windows.bat 48-64)
BootstrapConfig == AgentConfig(60, 600, "site", 5)

\* a row of the users table (part_011 19-30): the columns the routes decide on
User(id, role, password) == [id |-> id, role |-> role, password |-> password]

\* the default admin the server creates when no user has role admin
DefaultAdmin == User(1, "admin", "p0")

\* the users table after initializeDatabase: the default admin alone
UsersInit ==
  /\ users = {DefaultAdmin}
  /\ userSeq = 1
  /\ tokens = {}
  /\ deleting = {}
  /\ actor = [id |-> 0, role |-> None, status |-> 0]

\* checkAuth of a mounted AuthProvider that has not run yet
NotChecked == [pc |-> "mount", token |-> None]

\* useState(null) of currentUser; a user object is the one the server answers
\* for a token
Null == [session |-> None]

\* a first page load in a browser that holds no token: the useState defaults
BrowserInit ==
  /\ stored = None
  /\ header = None
  /\ currentUser = Null
  /\ isAuthenticated = FALSE
  /\ loading = TRUE
  /\ error = None
  /\ checkAuth = NotChecked
  /\ login = {}
  /\ logins = 0
  /\ mounts = 1

\* no configuration stored on the server; the bootstrap file in force
ExtraInit ==
  /\ agent_configs = [id \in {1, 2} |-> NoConfig]
  /\ config = [c \in Clients |-> BootstrapConfig]
  /\ UsersInit
  /\ BrowserInit

\* the three timers of the agent's scheduler
Kinds == {"discovery", "polling", "sync"}

\* an agent whose timers have not ticked, with an empty Local Store
AgentInit(ld, nets) ==
  /\ loaded = ld
  /\ subnets = nets
  /\ running = [k \in Kinds |-> 0]
  /\ ticks = [k \in Kinds |-> 0]
  /\ cycles = [k \in Kinds |-> 0]
  /\ todo = [k \in Kinds |-> {}]
  /\ store_printers = {}
  /\ store_metrics = EmptyBag
  /\ probes = {}
  /\ polls = {}

\* a first run: empty database, no key file
Fresh ==
  /\ ExtraInit /\ AgentInit(FALSE, {})
  /\ agents = {}
  /\ agentSeq = 0
  /\ keyCtr = 0
  /\ printers = {}
  /\ printerSeq = 0
  /\ metrics = <<>>
  /\ pending = [c \in Clients |-> NoReq]
  /\ orphans = EmptyBag
  /\ api_key = [c \in Clients |-> load_api_key(NoFile)]
  /\ registered = [c \in Clients |-> FALSE]
  /\ keyFile = [c \in Clients |-> NoFile]
  /\ samples = [c \in Clients |-> SampleInputs]
  /\ clock = 2
  /\ cpc = [c \in Clients |-> "idle"]
  /\ lastRet = [c \in Clients |-> Ret("init", None)]
  /\ before = [c \in Clients |-> [i |-> 1, d |-> SampleInputs[1], prev |-> NoSample]]
  /\ tried = [c \in Clients |-> [i \in DOMAIN SampleInputs |-> NoSample]]
  /\ faults = MaxFaults
  /\ issued = [a \in AgentIds |-> {}]
  /\ acked = [printers |-> {}, metrics |-> {}]

Init == Fresh /\ calls = MaxCalls

\* one client, every call of ServerIntegration, from a first run
Next ==
  \/ \E w \in Places : \E h \in Handled(w) : RegisterSelect(w, h)
  \/ \E w \in Places : \E h \in Handled(w) : RegisterUpdate(w, h)
  \/ \E w \in Places : \E h \in Handled(w) : RegisterInsert(w, h)
  \/ \E w \in Places : \E h \in Handled(w) : DataAuth(w, h)
  \/ \E w \in Places : \E h \in Handled(w) : MetricsSelect(w, h)
  \/ \E w \in Places : \E h \in Handled(w) : MetricsInsert(w, h)
  \/ \E w \in Places : \E h \in Handled(w) : MetricsUpdate(w, h)
  \/ \E w \in Places : \E h \in Handled(w) : PrinterSelect(w, h)
  \/ \E w \in Places : \E h \in Handled(w) : PrinterUpdate(w, h)
  \/ \E w \in Places : \E h \in Handled(w) : PrinterInsert(w, h)
  \/ \E w \in Places : \E h \in Handled(w) : ServerFault(w, h)
  \/ RegisterCall("c1")
  \/ RegisterReturn("c1")
  \/ SendPrinterDataCall("c1")
  \/ SendMetricsCall("c1")
  \/ GetServerConfigCall("c1")
  \/ CallReturn("c1")
  \/ TransportError("c1")
  \/ Restart("c1")

Spec == Init /\ [][Next]_vars

\* two agents registering, from a first run
InitReg == Fresh /\ calls = MaxRegCalls

NextReg ==
  \/ \E w \in Places : \E h \in Handled(w) : RegisterSelect(w, h)
  \/ \E w \in Places : \E h \in Handled(w) : RegisterUpdate(w, h)
  \/ \E w \in Places : \E h \in Handled(w) : RegisterInsert(w, h)
  \/ \E w \in Places : \E h \in Handled(w) : ServerFault(w, h)
  \/ \E c \in Clients : RegisterCall(c)
  \/ \E c \in Clients : RegisterReturn(c)
  \/ \E c \in Clients : TransportError(c)

SpecReg == InitReg /\ [][NextReg]_vars

\* the state both agents are in after a first successful register()
RegisteredOn(nets) ==
  /\ ExtraInit /\ AgentInit(TRUE, nets)
  /\ agents = {[id |-> 1, agent_id |-> "a1", api_key |-> "k1", name |-> "site"],
               [id |-> 2, agent_id |-> "a2", api_key |-> "k2", name |-> "site"]}
  /\ agentSeq = 2
  /\ keyCtr = 2
  /\ printers = {}
  /\ printerSeq = 0
  /\ metrics = <<>>
  /\ pending = [c \in Clients |-> NoReq]
  /\ orphans = EmptyBag
  /\ api_key = [c \in Clients |-> IF c = "c1" THEN "k1" ELSE "k2"]
  /\ registered = [c \in Clients |-> TRUE]
  /\ keyFile = [c \in Clients |-> IF c = "c1" THEN "k1" ELSE "k2"]
  /\ samples = [c \in Clients |-> SampleInputs]
  /\ clock = 2
  /\ cpc = [c \in Clients |-> "idle"]
  /\ lastRet = [c \in Clients |-> Ret("register", "True")]
  /\ before = [c \in Clients |-> [i |-> 1, d |-> SampleInputs[1], prev |-> NoSample]]
  /\ tried = [c \in Clients |-> [i \in DOMAIN SampleInputs |-> NoSample]]
  /\ faults = MaxFaults
  /\ issued = [a \in AgentIds |-> IF a = "a1" THEN {"k1"} ELSE {"k2"}]
  /\ acked = [printers |-> {}, metrics |-> {}]

\* ... for an agent that scans no subnet
Registered == RegisteredOn({})

InitPush == Registered /\ calls = MaxPushes

\* a registered agent pushing printers and metrics
NextPush ==
  \/ \E w \in Places : \E h \in Handled(w) : DataAuth(w, h)
  \/ \E w \in Places : \E h \in Handled(w) : MetricsSelect(w, h)
  \/ \E w \in Places : \E h \in Handled(w) : MetricsInsert(w, h)
  \/ \E w \in Places : \E h \in Handled(w) : MetricsUpdate(w, h)
  \/ \E w \in Places : \E h \in Handled(w) : PrinterSelect(w, h)
  \/ \E w \in Places : \E h \in Handled(w) : PrinterUpdate(w, h)
  \/ \E w \in Places : \E h \in Handled(w) : PrinterInsert(w, h)
  \/ \E w \in Places : \E h \in Handled(w) : ServerFault(w, h)
  \/ SendPrinterDataCall("c1")
  \/ SendMetricsCall("c1")
  \/ CallReturn("c1")
  \/ TransportError("c1")

SpecPush == InitPush /\ [][NextPush]_vars

\* --------------------------------------------------------------- sync cycle
\* The agent's local store and sync loop (data_collector.py) are not part of
\* the sources; they are modelled after the design: the store hands out the
\* records that are not yet marked synced, in the order of their local ids, and
\* the Sync Client pushes the first of them on each tick, identities before
\* samples.

\* the printers table of ./data/printers.db (setup_windows.bat 71): the local
\* id of a printer is its place in the table
LocalPrinters == << PrinterData("10.0.0.1", "SN1", "LaserJet", None) >>

\* metrics.printer_id of ./data/printers.db (setup_windows.bat 71): the local
\* id of the printer a sample was polled from
printer_ref(i) == 1

\* records marked synced are the ones a push returned True for
UnsyncedPrinters(c) ==
  {k \in DOMAIN LocalPrinters :
     \A a \in acked.printers : ~(a.client = c /\ a.data = LocalPrinters[k])}

UnsyncedSamples(c) ==
  {i \in DOMAIN samples[c] :
     \A a \in acked.metrics : ~(a.client = c /\ a.data = samples[c][i])}

First(S) == CHOOSE k \in S : \A j \in S : k <= j

\* one sync tick of a registered agent: pushIdentity / pushMetrics of the first
\* unsynced record
SyncTick(c) ==
  /\ cpc[c] = "idle" /\ Truthy(api_key[c])
  /\ IF UnsyncedPrinters(c) # {}
       THEN /\ send_printer_data(c, LocalPrinters[First(UnsyncedPrinters(c))])
            /\ UNCHANGED localVars
       ELSE /\ UnsyncedSamples(c) # {}
            /\ send_metrics(c, First(UnsyncedSamples(c)),
                            printer_ref(First(UnsyncedSamples(c))))
  /\ UNCHANGED <<extraVars, serverVars, orphans, clientVars, faults, calls, issued, acked>>

InitSync == Registered /\ calls = MaxOtherPushes

\* agent a1 syncing its store while agent a2 pushes printers of its own
NextSync ==
  \/ \E w \in Places : \E h \in Handled(w) : DataAuth(w, h)
  \/ \E w \in Places : \E h \in Handled(w) : MetricsSelect(w, h)
  \/ \E w \in Places : \E h \in Handled(w) : MetricsInsert(w, h)
  \/ \E w \in Places : \E h \in Handled(w) : MetricsUpdate(w, h)
  \/ \E w \in Places : \E h \in Handled(w) : PrinterSelect(w, h)
  \/ \E w \in Places : \E h \in Handled(w) : PrinterUpdate(w, h)
  \/ \E w \in Places : \E h \in Handled(w) : PrinterInsert(w, h)
  \/ \E w \in Places : \E h \in Handled(w) : ServerFault(w, h)
  \/ SyncTick("c1")
  \/ CallReturn("c1")
  \/ TransportError("c1")
  \/ SendPrinterDataCall("c2")
  \/ CallReturn("c2")
  \/ TransportError("c2")

\* sync ticks keep occurring, the server answers the requests it has, answers
\* reach the agent; faults are not fair and there are at most MaxFaults of them
FairSync ==
  /\ WF_vars(SyncTick("c1"))
  /\ WF_vars(CallReturn("c1"))
  /\ WF_vars(CallReturn("c2"))
  /\ WF_vars(\E w \in Places : \E h \in Handled(w) : DataAuth(w, h))
  /\ WF_vars(\E w \in Places : \E h \in Handled(w) : MetricsSelect(w, h))
  /\ WF_vars(\E w \in Places : \E h \in Handled(w) : MetricsInsert(w, h))
  /\ WF_vars(\E w \in Places : \E h \in Handled(w) : MetricsUpdate(w, h))
  /\ WF_vars(\E w \in Places : \E h \in Handled(w) : PrinterSelect(w, h))
  /\ WF_vars(\E w \in Places : \E h \in Handled(w) : PrinterUpdate(w, h))
  /\ WF_vars(\E w \in Places : \E h \in Handled(w) : PrinterInsert(w, h))

SpecSync == InitSync /\ [][NextSync]_vars /\ FairSync

\* ------------------------------------------------------------ configuration
\* JavaScript x || d on a number: 0 and undefined are falsy
OrNumber(x, d) == IF x = 0 THEN d ELSE x

\* JavaScript x || d on a string
OrString(x, d) == IF Truthy(x) THEN x ELSE d

\* agents.js 301-322: the row INSERT ... ON CONFLICT (agent_id) DO UPDATE stores
ConfigRow(body) ==
  AgentConfig(OrNumber(body.polling_interval, 300), OrNumber(body.discovery_interval, 86400),
              OrString(body.snmp_community, "public"), OrNumber(body.snmp_timeout, 2))

\* the bodies an administrator sends to PUT /agents/config/:id
ConfigBodies ==
  {AgentConfig(0, d, None, 0) : d \in {0, 3600, 7200}}

\* PUT /agents/config/:id (agents.js 271-330) behind authenticateToken and
\* authorize(["admin"]): 403 for another role, 404 for an id that is no agent,
\* else the upsert.  No statement deletes an agent, so the SELECT of 281-288
\* and the upsert are one step.
PutConfig ==
  /\ \E role \in {"admin", "user"}, id \in {1, 3}, body \in ConfigBodies :
       IF role = "admin" /\ (\E r \in agents : r.id = id)
         THEN agent_configs' = [agent_configs EXCEPT ![id] = ConfigRow(body)]
         ELSE UNCHANGED agent_configs
  /\ UNCHANGED <<serverVars, pending, orphans, clientVars, localVars, cpc, lastRet, faults,
                 calls, issued, acked, config, schedVars, scanVars, userVars,
                 browserVars>>

\* a 200 answer that lacks fields of the configuration
PartialConfig == [polling_interval |-> 300]

\* the config pull is answered by something else than data.js: the catch-all
\* route of a server without /api/data/config (api.js 561-566) sends
\* index.html with status 200; a server of another version sends a JSON object
\* with other fields
ForeignAnswer(c) ==
  /\ pending[c] # NoReq /\ pending[c].kind = "config" /\ pending[c].pc = "new"
  /\ \E body \in {HtmlPage, PartialConfig} :
       pending' = [pending EXCEPT ![c] = Answer(c, @, ConfigResponse(body))]
  /\ UNCHANGED <<extraVars, serverVars, orphans, notServer, faults, issued>>

InitConfig == Registered /\ calls = MaxPulls

\* a registered agent pulling its configuration while an administrator stores
\* configurations for it
NextConfig ==
  \/ \E w \in Places : \E h \in Handled(w) : DataAuth(w, h)
  \/ \E w \in Places : \E h \in Handled(w) : ServerFault(w, h)
  \/ GetServerConfigCall("c1")
  \/ CallReturn("c1")
  \/ TransportError("c1")
  \/ PutConfig

SpecConfig == InitConfig /\ [][NextConfig]_vars

\* a registered agent pulling its configuration from whatever answers
NextAnswers ==
  \/ \E w \in Places : \E h \in Handled(w) : DataAuth(w, h)
  \/ \E w \in Places : \E h \in Handled(w) : ServerFault(w, h)
  \/ GetServerConfigCall("c1")
  \/ CallReturn("c1")
  \/ TransportError("c1")
  \/ ForeignAnswer("c1")

SpecAnswers == InitConfig /\ [][NextAnswers]_vars

\* ------------------------------------------------ scheduler, scanner, poller
\* everything outside the scheduler and the Local Store
outsideAgent == <<configVars, userVars, browserVars, serverVars, pending, orphans, notServer,
                  faults, issued>>

\* the agent reads config.ini at start
LoadConfig ==
  /\ ~loaded
  /\ loaded' = TRUE
  /\ UNCHANGED <<running, ticks, cycles, scanVars, outsideAgent>>

\* the agent's register() has returned at least once
Attempted == lastRet["c1"].op # "init"

\* a plausible slip: the timers are started with the process
ArmedAtOnce == TRUE

\* the timers run once the configuration is loaded and registration has been
\* attempted
Armed == loaded /\ Attempted

Net(base, prefix) == [base |-> base, prefix |-> prefix]

RECURSIVE Pow2(_)
Pow2(n) == IF n = 0 THEN 1 ELSE 2 * Pow2(n - 1)

\* a plausible slip: every address of the subnet is probed
AllAddresses(net) == net.base .. (net.base + Pow2(32 - net.prefix) - 1)

\* the host addresses of a subnet: network and broadcast address excluded
hosts(net) == (net.base + 1) .. (net.base + Pow2(32 - net.prefix) - 2)

\* what a cycle of each kind goes over: every host of every subnet, every
\* stored printer, and for sync nothing the scheduler probes
Targets(k) ==
  IF k = "discovery" THEN UNION {hosts(n) : n \in subnets}
  ELSE IF k = "polling" THEN {r.ip_address : r \in store_printers}
  ELSE {}

\* a plausible slip: every tick starts a cycle
Overlap(n) == n + 1

\* a tick starts a cycle on an Idle timer and is skipped on a Running one
AfterTick(n) == IF n = 0 THEN 1 ELSE n

TicksSoFar == ticks["discovery"] + ticks["polling"] + ticks["sync"]

Tick(k) ==
  /\ Armed /\ TicksSoFar < MaxTicks
  /\ ticks' = [ticks EXCEPT ![k] = @ + 1]
  /\ running' = [running EXCEPT ![k] = AfterTick(@)]
  /\ IF AfterTick(running[k]) > running[k]
       THEN /\ cycles' = [cycles EXCEPT ![k] = @ + 1]
            /\ todo' = [todo EXCEPT ![k] = Targets(k)]
       ELSE UNCHANGED <<cycles, todo>>
  /\ UNCHANGED <<loaded, subnets, store_printers, store_metrics, probes, polls, outsideAgent>>

\* a cycle that has gone over all its targets ends
EndCycle(k) ==
  /\ running[k] > 0 /\ todo[k] = {}
  /\ running' = [running EXCEPT ![k] = @ - 1]
  /\ UNCHANGED <<loaded, ticks, cycles, scanVars, outsideAgent>>

\* the device-identity OIDs a host may answer: none (timeout, refused), some, all
IdentityAnswers == {{}, {"sysDescr"}, {"sysDescr", "serial", "model"}}

\* a host that answers at least one identity OID is a printer
IsPrinter(ans) == ans # {}

PrinterIdentity(ip, ans) ==
  [ip_address |-> ip,
   serial_number |-> IF "serial" \in ans THEN "SN1" ELSE None,
   model |-> IF "model" \in ans THEN "LaserJet" ELSE None]

\* upsert with coalesce-on-update
Upsert(store, rec) ==
  IF \E r \in store : r.ip_address = rec.ip_address
    THEN {IF r.ip_address = rec.ip_address
            THEN [r EXCEPT !.serial_number = COALESCE(rec.serial_number, @),
                           !.model = COALESCE(rec.model, @)]
            ELSE r : r \in store}
    ELSE store \cup {rec}

\* the discovery cycle probes one of its remaining hosts
DiscoveryProbe ==
  /\ running["discovery"] > 0
  /\ \E h \in todo["discovery"], ans \in IdentityAnswers :
       /\ todo' = [todo EXCEPT !["discovery"] = @ \ {h}]
       /\ store_printers' = IF IsPrinter(ans)
                              THEN Upsert(store_printers, PrinterIdentity(h, ans))
                              ELSE store_printers
       /\ probes' = probes \cup {[ip |-> h, answered |-> ans]}
  /\ UNCHANGED <<schedVars, subnets, store_metrics, polls, outsideAgent>>

PollOutcomes == {"ok", "timeout", "unreachable"}

MetricSample(ip, cyc, out) ==
  IF out = "ok"
    THEN [ip_address |-> ip, cycle |-> cyc, status |-> "ready", page_count |-> 100,
          toner_levels |-> TonerDict(75)]
    ELSE [ip_address |-> ip, cycle |-> cyc, status |-> "offline", page_count |-> NoCount,
          toner_levels |-> NoToner]

\* a plausible slip: a failed poll is dropped, as a failed discovery probe is
RecordPollDropping(ms, ip, cyc, out) ==
  IF out = "ok" THEN ms (+) SetToBag({MetricSample(ip, cyc, out)}) ELSE ms

\* every poll, failed or not, writes one MetricSample
RecordPoll(ms, ip, cyc, out) == ms (+) SetToBag({MetricSample(ip, cyc, out)})

\* the polling cycle polls one of its remaining printers
PollProbe ==
  /\ running["polling"] > 0
  /\ \E h \in todo["polling"], out \in PollOutcomes :
       /\ todo' = [todo EXCEPT !["polling"] = @ \ {h}]
       /\ store_metrics' = RecordPoll(store_metrics, h, cycles["polling"], out)
       /\ polls' = polls \cup {[cycle |-> cycles["polling"], ip |-> h, outcome |-> out]}
  /\ UNCHANGED <<schedVars, subnets, store_printers, probes, outsideAgent>>

InitSched == Fresh /\ calls = MaxSchedCalls

\* the agent from its start: configuration, registration, then the timers
NextSched ==
  \/ \E w \in Places : \E h \in Handled(w) : RegisterSelect(w, h)
  \/ \E w \in Places : \E h \in Handled(w) : RegisterUpdate(w, h)
  \/ \E w \in Places : \E h \in Handled(w) : RegisterInsert(w, h)
  \/ LoadConfig
  \/ loaded /\ RegisterCall("c1")
  \/ RegisterReturn("c1")
  \/ TransportError("c1")
  \/ \E k \in Kinds : Tick(k)
  \/ \E k \in Kinds : EndCycle(k)

SpecSched == InitSched /\ [][NextSched]_vars

\* the subnets of the agent's configuration file
SubnetInputs == {{Net(0, 30)}, {Net(4, 30)}}

InitScan == \E nets \in SubnetInputs : RegisteredOn(nets) /\ calls = 0

\* a registered agent scanning its subnet and polling what it found
NextScan ==
  \/ Tick("discovery")
  \/ Tick("polling")
  \/ DiscoveryProbe
  \/ PollProbe
  \/ EndCycle("discovery")
  \/ EndCycle("polling")

SpecScan == InitScan /\ [][NextScan]_vars

\* ------------------------------------------------- requests of any sender
\* the configuration GET /agents/config/:agent_id creates when none is stored
\* (agents.js 251)
DefaultConfig == AgentConfig(300, 86400, "public", 2)

\* GET /agents/config/:agent_id, agents.js 220-241, behind authenticateAgent:
\* the row is looked up by the id of the authenticated agent, whatever the
\* path names
AgentConfigSelect(w, h) ==
  /\ h.kind = "agent_config" /\ h.pc = "new"
  /\ Put(w, h,
       IF ~Truthy(h.body.key) THEN Answer(w, h, Response(401, None, NoId))
       ELSE IF AgentByKey(h.body.key) = {} THEN Answer(w, h, Response(403, None, NoId))
       ELSE LET agent == (CHOOSE r \in AgentByKey(h.body.key) : TRUE).id IN
         IF agent_configs[agent] # NoConfig
           THEN Answer(w, h, ConfigResponse(agent_configs[agent]))
           ELSE [h EXCEPT !.pc = "c_insert", !.loc.agent = agent])
  /\ UNCHANGED <<extraVars, serverVars, notServer, faults, issued>>

\* agents.js 242-263: INSERT INTO agent_configs of the default row; the table
\* is UNIQUE(agent_id), so a second INSERT throws and the catch answers 500
AgentConfigInsert(w, h) ==
  /\ h.kind = "agent_config" /\ h.pc = "c_insert"
  /\ IF agent_configs[h.loc.agent] = NoConfig
       THEN /\ agent_configs' = [agent_configs EXCEPT ![h.loc.agent] = DefaultConfig]
            /\ Put(w, h, Answer(w, h, ConfigResponse(DefaultConfig)))
       ELSE /\ Put(w, h, Answer(w, h, Response(500, None, NoId)))
            /\ UNCHANGED agent_configs
  /\ UNCHANGED <<config, schedVars, scanVars, userVars, browserVars, serverVars, notServer, faults, issued>>

\* the bearer values a sender that is not agent a2 may put in a request: none,
\* one that is no agent's key, the key of agent a1
RawKeys == {None, "bogus", "k1"}

\* the bodies of POST /data such a sender may send
RawBodies ==
  {[key |-> k, type |-> t, hasData |-> d, printer_id |-> NoId, data |-> NoSample] :
     k \in RawKeys, t \in {None, "bogus"}, d \in BOOLEAN}
  \cup {[key |-> k, type |-> "metrics", hasData |-> d, printer_id |-> pid,
         data |-> PrepareMetrics(SampleInputs[2], clock)] :
          k \in RawKeys, d \in BOOLEAN, pid \in PrinterIds}
  \cup {[key |-> k, type |-> "printer_discovery", hasData |-> TRUE, printer_id |-> NoId,
         data |-> p] : k \in RawKeys, p \in PrinterInputs}

\* any HTTP client sends a request to the data or configuration endpoints
RawRequest(c) ==
  /\ cpc[c] = "idle" /\ calls > 0
  /\ \/ \E b \in RawBodies : Post(c, "raw", "data", b)
     \/ \E k \in RawKeys, kind \in {"config", "agent_config"} : Post(c, "raw", kind, [key |-> k])
  /\ calls' = calls - 1
  /\ UNCHANGED <<extraVars, serverVars, orphans, clientVars, localVars, faults, issued, acked>>

\* ... and receives the answer
RawReturn(c) ==
  LET h == pending[c] IN
  /\ cpc[c] = "raw" /\ h # NoReq /\ h.pc = "done"
  /\ pending' = [pending EXCEPT ![c] = NoReq]
  /\ lastRet' = [lastRet EXCEPT ![c] = Ret("raw", StatusValue(h.resp))]
  /\ cpc' = [cpc EXCEPT ![c] = "idle"]
  /\ UNCHANGED <<extraVars, serverVars, orphans, clientVars, localVars, faults, calls,
                 issued, acked>>

InitRaw == Registered /\ calls = MaxRaw

\* agent a2 pushing its data while another sender, who may hold the key of
\* agent a1, sends whatever it likes
NextRaw ==
  \/ \E w \in Places : \E h \in Handled(w) : DataAuth(w, h)
  \/ \E w \in Places : \E h \in Handled(w) : MetricsSelect(w, h)
  \/ \E w \in Places : \E h \in Handled(w) : MetricsInsert(w, h)
  \/ \E w \in Places : \E h \in Handled(w) : MetricsUpdate(w, h)
  \/ \E w \in Places : \E h \in Handled(w) : PrinterSelect(w, h)
  \/ \E w \in Places : \E h \in Handled(w) : PrinterUpdate(w, h)
  \/ \E w \in Places : \E h \in Handled(w) : PrinterInsert(w, h)
  \/ \E w \in Places : \E h \in Handled(w) : AgentConfigSelect(w, h)
  \/ \E w \in Places : \E h \in Handled(w) : AgentConfigInsert(w, h)
  \/ RawRequest("c1")
  \/ RawReturn("c1")
  \/ SendPrinterDataCall("c2")
  \/ SendMetricsCall("c2")
  \/ CallReturn("c2")

SpecRaw == InitRaw /\ [][NextRaw]_vars

\* ------------------------------------------------------- user management
\* what no login and no user-management request touches
notUsers == <<configVars, schedVars, scanVars, browserVars, serverVars, pending, orphans,
              clientVars, localVars, cpc, lastRet, acked, faults, issued>>

Roles == {"user", "admin"}

\* the payload jwt.sign puts in a token: the id and the role the row has at login
Payload(u) == [id |-> u.id, role |-> u.role]

\* the step ran under token tok and was answered with status
Actor(tok, status) == [id |-> tok.id, role |-> tok.role, status |-> status]

\* POST /auth/login with the credentials of user u: the token is signed over
\* the row as it is now and stays valid for 24 hours
Login(u) ==
  /\ calls > 0 /\ u \in users
  /\ tokens' = tokens \cup {Payload(u)}
  /\ calls' = calls - 1
  /\ UNCHANGED <<users, userSeq, deleting, actor, notUsers>>

\* authorize(["admin"]): decided on the role in the token
authorize(tok, roles) == tok.role \in roles

\* POST /users: an admin token creates a user, role || "user"
CreateUser(tok, role) ==
  /\ calls > 0 /\ tok \in tokens /\ userSeq < MaxUsers
  /\ calls' = calls - 1
  /\ IF ~authorize(tok, {"admin"})
       THEN /\ actor' = Actor(tok, 403)
            /\ UNCHANGED <<users, userSeq>>
       ELSE /\ users' = users \cup {User(userSeq + 1, OrString(role, "user"), "p0")}
            /\ userSeq' = userSeq + 1
            /\ actor' = Actor(tok, 201)
  /\ UNCHANGED <<tokens, deleting, notUsers>>

\* the bodies of PUT /users/:id: a new password, a new role, both or neither
UpdateBodies == {[password |-> pw, role |-> r] : pw \in {None, "p1"}, r \in {None} \cup Roles}

\* the row the UPDATE of PUT /users/:id leaves for row u
Updated(u, tok, body) ==
  User(u.id,
       IF Truthy(body.role) /\ tok.role = "admin" THEN body.role ELSE u.role,
       IF Truthy(body.password) THEN body.password ELSE u.password)

\* PUT /users/:id
UpdateUser(tok, userId, body) ==
  /\ calls > 0 /\ tok \in tokens
  /\ calls' = calls - 1
  /\ IF tok.id # userId /\ tok.role # "admin"
       THEN actor' = Actor(tok, 403) /\ UNCHANGED users
     ELSE IF Truthy(body.role) /\ tok.role # "admin"
       THEN actor' = Actor(tok, 403) /\ UNCHANGED users
     ELSE IF ~Truthy(body.password) /\ ~(Truthy(body.role) /\ tok.role = "admin")
       THEN actor' = Actor(tok, 400) /\ UNCHANGED users
     ELSE IF \A u \in users : u.id # userId
       THEN actor' = Actor(tok, 404) /\ UNCHANGED users
     ELSE /\ users' = {IF u.id = userId THEN Updated(u, tok, body) ELSE u : u \in users}
          /\ actor' = Actor(tok, 200)
  /\ UNCHANGED <<userSeq, tokens, deleting, notUsers>>

\* SELECT COUNT(*) FROM users WHERE role = 'admin'
adminCount == Cardinality({u \in users : u.role = "admin"})

\* the answer of DELETE FROM users WHERE id = userId RETURNING id
DeleteStatus(userId) == IF \E u \in users : u.id = userId THEN 200 ELSE 404

\* DELETE /users/:id up to its first query: deleting oneself counts the admins
\* first, deleting someone else goes straight to the DELETE
DeleteUser(tok, userId) ==
  /\ calls > 0 /\ tok \in tokens
  /\ calls' = calls - 1
  /\ IF ~authorize(tok, {"admin"})
       THEN actor' = Actor(tok, 403) /\ UNCHANGED <<users, deleting>>
     ELSE IF tok.id = userId
       THEN IF adminCount <= 1
              THEN actor' = Actor(tok, 400) /\ UNCHANGED <<users, deleting>>
              ELSE /\ deleting' = deleting \cup {tok}
                   /\ UNCHANGED <<users, actor>>
     ELSE /\ users' = {u \in users : u.id # userId}
          /\ actor' = Actor(tok, DeleteStatus(userId))
          /\ UNCHANGED deleting
  /\ UNCHANGED <<userSeq, tokens, notUsers>>

\* ... and the DELETE of a handler that counted more than one admin
DeleteOwnRow(tok) ==
  /\ tok \in deleting
  /\ deleting' = deleting \ {tok}
  /\ users' = {u \in users : u.id # tok.id}
  /\ actor' = Actor(tok, DeleteStatus(tok.id))
  /\ UNCHANGED <<userSeq, tokens, calls, notUsers>>

InitUsers == Fresh /\ calls = MaxUserCalls

\* logins and user-management requests of every user, in any interleaving
NextUsers ==
  \/ \E u \in users : Login(u)
  \/ \E tok \in tokens, role \in {None} \cup Roles : CreateUser(tok, role)
  \/ \E tok \in tokens, userId \in 1..MaxUsers, body \in UpdateBodies : UpdateUser(tok, userId, body)
  \/ \E tok \in tokens, userId \in 1..MaxUsers : DeleteUser(tok, userId)
  \/ \E tok \in deleting : DeleteOwnRow(tok)

SpecUsers == InitUsers /\ [][NextUsers]_vars

\* ------------------------------------------------ web client: AuthContext
\* what no step of the web client touches
notBrowser == <<configVars, schedVars, scanVars, userVars, serverVars, pending, orphans,
                notServer, faults, issued>>

\* the tokens POST /api/auth/login answers, one per login
TokenNames == <<"t1", "t2", "t3", "t4", "t5">>

\* the user object the server answers for a token
Session(tok) == [session |-> tok]

\* checkAuth up to its await: with a stored token the header is set and the
\* request sent, without one only loading is cleared
CheckAuthStart ==
  /\ checkAuth.pc = "mount"
  /\ IF Truthy(stored)
       THEN /\ header' = stored
            /\ checkAuth' = [pc |-> "waiting", token |-> stored]
            /\ UNCHANGED loading
       ELSE /\ checkAuth' = [pc |-> "done", token |-> None]
            /\ loading' = FALSE
            /\ UNCHANGED header
  /\ UNCHANGED <<stored, currentUser, isAuthenticated, error, login, logins, mounts, notBrowser>>

\* GET /api/auth/me is answered with the user of the token the request carried
CheckAuthOk ==
  /\ checkAuth.pc = "waiting"
  /\ currentUser' = Session(checkAuth.token)
  /\ isAuthenticated' = TRUE
  /\ loading' = FALSE
  /\ checkAuth' = [checkAuth EXCEPT !.pc = "done"]
  /\ UNCHANGED <<stored, header, error, login, logins, mounts, notBrowser>>

\* GET /api/auth/me fails: the catch block clears the token and the header
CheckAuthFail ==
  /\ checkAuth.pc = "waiting"
  /\ stored' = None
  /\ header' = None
  /\ error' = "Session expired. Please login again."
  /\ loading' = FALSE
  /\ checkAuth' = [checkAuth EXCEPT !.pc = "done"]
  /\ UNCHANGED <<currentUser, isAuthenticated, login, logins, mounts, notBrowser>>

\* login up to its await
LoginStart ==
  /\ checkAuth.pc # "mount" /\ logins < MaxLogins
  /\ loading' = TRUE
  /\ error' = None
  /\ login' = login \cup {logins + 1}
  /\ logins' = logins + 1
  /\ UNCHANGED <<stored, header, currentUser, isAuthenticated, checkAuth, mounts, notBrowser>>

\* POST /api/auth/login is answered with a token and its user
LoginOk(n) ==
  /\ n \in login
  /\ stored' = TokenNames[n]
  /\ header' = TokenNames[n]
  /\ currentUser' = Session(TokenNames[n])
  /\ isAuthenticated' = TRUE
  /\ loading' = FALSE
  /\ login' = login \ {n}
  /\ UNCHANGED <<error, checkAuth, logins, mounts, notBrowser>>

\* POST /api/auth/login fails
LoginFail(n) ==
  /\ n \in login
  /\ error' = "Login failed. Please try again."
  /\ loading' = FALSE
  /\ login' = login \ {n}
  /\ UNCHANGED <<stored, header, currentUser, isAuthenticated, checkAuth, logins, mounts,
                 notBrowser>>

\* logout
Logout ==
  /\ checkAuth.pc # "mount"
  /\ stored' = None
  /\ header' = None
  /\ currentUser' = Null
  /\ isAuthenticated' = FALSE
  /\ UNCHANGED <<loading, error, checkAuth, login, logins, mounts, notBrowser>>

\* clearError
ClearError ==
  /\ error # None
  /\ error' = None
  /\ UNCHANGED <<stored, header, currentUser, isAuthenticated, loading, checkAuth, login, logins,
                 mounts, notBrowser>>

\* the page is loaded again: localStorage is kept, the axios defaults and the
\* state of AuthProvider start over, the answers still awaited are dropped
Reload ==
  /\ mounts < MaxMounts
  /\ mounts' = mounts + 1
  /\ header' = None
  /\ currentUser' = Null
  /\ isAuthenticated' = FALSE
  /\ loading' = TRUE
  /\ error' = None
  /\ checkAuth' = NotChecked
  /\ login' = {}
  /\ UNCHANGED <<stored, logins, notBrowser>>

InitWeb == Fresh /\ calls = 0

\* one browser tab: the stored-token check of each page load, logins and
\* logouts in any order
NextWeb ==
  \/ CheckAuthStart
  \/ CheckAuthOk
  \/ CheckAuthFail
  \/ LoginStart
  \/ \E n \in login : LoginOk(n)
  \/ \E n \in login : LoginFail(n)
  \/ Logout
  \/ ClearError
  \/ Reload

SpecWeb == InitWeb /\ [][NextWeb]_vars

\* ------------------------------------------------------------------- claims
Fields == {"serial_number", "model", "name"}
AgentRowOf(c) == CHOOSE r \in agents : r.agent_id = agent_id(c)
AllHandlers == UNION {Handled(w) : w \in Places}
Calls == {"register", "send_printer_data", "send_metrics", "get_server_config"}

\* C1: every 200 answer of POST /agents/register for an agent_id carries the
\* same token, the api_key of the one agents row of that agent_id, whatever
\* name the request gives.
C1_IdempotentRegistration ==
  \A a \in AgentIds :
    /\ Cardinality(issued[a]) <= 1
    /\ Cardinality(AgentRows(a)) <= 1
    /\ \A k \in issued[a] : \E r \in AgentRows(a) : r.api_key = k
    /\ \A c \in Clients :
         (agent_id(c) = a /\ pending[c] # NoReq /\ pending[c].pc = "done"
            /\ pending[c].resp.status = 200)
         => pending[c].resp.token \in issued[a]

\* an agent that holds the key of its first registration gets its second
\* registration, under another name, answered with that key
C1_Witness ==
  \E c \in Clients :
    /\ registered[c] /\ Truthy(api_key[c])
    /\ pending[c] # NoReq /\ pending[c].kind = "register" /\ pending[c].pc = "done"
    /\ pending[c].resp.status = 200 /\ pending[c].resp.token = api_key[c]
    /\ \E r \in AgentRows(agent_id(c)) : r.name = "site2" /\ r.api_key = api_key[c]

\* the row the server keeps for an acknowledged metrics payload
Stored(a, row) ==
  /\ row.printer_id = a.printer_id
  /\ row.timestamp = a.data.timestamp
  /\ row.page_count = a.data.page_count
  /\ row.status = a.data.status
  /\ row.error_state = a.data.error_state
  /\ row.toner_levels = IF a.data.toner_levels.t = "text"
                          THEN TonerDict(a.data.toner_levels.v) ELSE NoToner

\* C2: every push a call returned True for is on the server: a metrics row
\* with the pushed values, a printer row of the agent with the pushed address
\* in which every pushed field is known.
C2_SyncedIsOnServer ==
  /\ \A a \in acked.metrics : \E i \in DOMAIN metrics : Stored(a, metrics[i])
  /\ \A a \in acked.printers :
       \E r \in printers :
         /\ r.agent = AgentRowOf(a.client).id
         /\ r.ip_address = a.data.ip_address
         /\ \A f \in Fields : a.data[f] # None => r[f] # None

C2_Witness == acked.metrics # {} /\ acked.printers # {}

\* the server holds a row for the i-th sample of the agent
Accepted(c, i) ==
  /\ tried[c][i] # NoSample
  /\ \E j \in DOMAIN metrics : metrics[j].timestamp = tried[c][i].timestamp

\* C3: with sync ticks that keep occurring and faults that stop, every printer
\* and every sample of the local store is eventually on the server.
C3_AtLeastOnce ==
  /\ \A k \in DOMAIN LocalPrinters :
       <>(PrinterByIp(printers, LocalPrinters[k].ip_address, 1) # {})
  /\ \A i \in DOMAIN SampleInputs : <>Accepted("c1", i)

\* C4: a printer row never loses a known serial_number, model or name, and a
\* field changes only to the value a printer push for that row carries.
C4_CoalesceKeepsKnown ==
  [][\A r \in printers : \E r2 \in printers' :
       /\ r2.id = r.id /\ r2.agent = r.agent /\ r2.ip_address = r.ip_address
       /\ \A f \in Fields :
            /\ r[f] # None => r2[f] # None
            /\ r2[f] # r[f] =>
                 \E h \in AllHandlers :
                   /\ h.kind = "data" /\ h.pc = "p_update" /\ h.loc.found = r.id
                   /\ h.body.data[f] = r2[f]]_vars

\* a push without serial_number was applied to the row whose serial_number is
\* known, and the serial_number is still there
C4_Witness ==
  /\ pending["c1"] # NoReq /\ pending["c1"].pc = "done"
  /\ pending["c1"].resp.status = 200
  /\ pending["c1"].body.data = PrinterData("10.0.0.1", None, "OfficeJet", "Front desk")
  /\ \E r \in printers : /\ r.id = pending["c1"].resp.printer_id
                         /\ r.serial_number = "SN1" /\ r.model = "OfficeJet"

\* C5: the server holds at most one printer row per (agent, ip_address).
C5_OnePrinterPerAddress ==
  \A r1, r2 \in printers :
    (r1.agent = r2.agent /\ r1.ip_address = r2.ip_address) => r1 = r2

\* two pushes of one new address raced: the second INSERT was rejected after
\* taking an id
C5_Witness == printerSeq = 2 /\ Cardinality(printers) = 1

\* C6: a sample that is pushed again because no push of it was acknowledged
\* leaves one metrics row per printer for it, as one delivery does.
C6_RedeliveryIdempotent ==
  \A c \in Clients : \A i \in DOMAIN samples[c] : \A pid \in PrinterIds :
    (\A a \in acked.metrics : a.data # tried[c][i])
    => Cardinality({j \in DOMAIN metrics :
                      /\ metrics[j].printer_id = pid
                      /\ metrics[j].timestamp = tried[c][i].timestamp}) <= 1

\* the payload of a send_metrics call for a dict that was sent before is the
\* payload of the attempt before
RetryVerbatim ==
  \A c \in Clients :
    (cpc[c] = "send_metrics" /\ before[c].prev # NoSample)
    => pending[c].body.data = before[c].prev

C8_FailedRegisterFrame ==
  [][\A c \in Clients :
       (cpc[c] = "register" /\ cpc'[c] # "register" /\ lastRet'[c].val # "True")
       => /\ api_key'[c] = api_key[c]
          /\ registered'[c] = registered[c]
          /\ keyFile'[c] = keyFile[c]]_vars

\* a registered agent holding its key had a register() fail
C8_Witness ==
  /\ lastRet["c1"] = Ret("register", "False") /\ cpc["c1"] = "idle"
  /\ registered["c1"] /\ api_key["c1"] = "k1" /\ keyFile["c1"] = "k1"

\* the failure value of a call
FailureValue(op) == IF op = "get_server_config" THEN "None" ELSE "False"

\* C9: no call raises: every call returns True/False (a config or None for
\* get_server_config), a transport error or an answer other than 200 gives
\* the failure value, and the caller is back in its loop.
C9_NoRaise ==
  /\ [](\A c \in Clients :
          /\ cpc[c] # "crashed"
          /\ lastRet[c].op \in Calls =>
               lastRet[c].val \in (IF lastRet[c].op = "get_server_config"
                                     THEN {"Config", "None"} ELSE {"True", "False"}))
  /\ [][\A c \in Clients :
          (cpc[c] \in Calls /\ cpc'[c] # cpc[c]
             /\ (pending[c].pc # "done" \/ pending[c].resp.status # 200))
          => cpc'[c] = "idle" /\ lastRet'[c] = Ret(cpc[c], FailureValue(cpc[c]))]_vars

\* a call of an agent that holds a key failed and the agent is idle again
C9_Witness ==
  /\ cpc["c1"] = "idle" /\ Truthy(api_key["c1"])
  /\ lastRet["c1"] = Ret("get_server_config", "None")

\* C10: api_key is None until a register() succeeded, and a call changes it
\* only when it is a register() that returns True on an answer with a token,
\* to that token.
C10_ApiKeyFrame ==
  /\ [](\A c \in Clients :
          api_key[c] # None =>
            /\ registered[c] \/ keyFile[c] # NoFile
            /\ issued[agent_id(c)] # {})
  /\ [][\A c \in Clients :
          (api_key'[c] # api_key[c] /\ lastRet'[c].op # "init")
          => /\ cpc[c] = "register" /\ lastRet'[c] = Ret("register", "True")
             /\ pending[c].resp.token = api_key'[c]
             /\ api_key'[c] # None]_vars

\* the key of a successful register() is still held after a push
C10_Witness ==
  /\ api_key["c1"] = "k1" /\ cpc["c1"] = "idle"
  /\ lastRet["c1"] = Ret("send_printer_data", "False")

PushOps == {"send_printer_data", "send_metrics", "get_server_config"}

\* C11: registered becomes True only in a register() that returns True on a
\* 200 answer, a register() that fails leaves an unregistered agent
\* unregistered, and registered never falls but in __init__ (a restart); no
\* push and no config pull changes it.
C11_RegisteredBySuccess ==
  [][\A c \in Clients :
       /\ (~registered[c] /\ registered'[c])
          => /\ cpc[c] = "register" /\ pending[c].pc = "done"
             /\ pending[c].resp.status = 200
             /\ lastRet'[c] = Ret("register", "True")
       /\ (~registered[c] /\ cpc[c] = "register" /\ cpc'[c] # "register"
             /\ lastRet'[c].val # "True")
          => ~registered'[c]
       /\ (registered[c] /\ ~registered'[c]) => lastRet'[c] = Ret("init", None)
       /\ (cpc[c] \in PushOps \/ cpc'[c] \in PushOps)
          => registered'[c] = registered[c]]_vars

\* a registered agent pulled its configuration and is still registered
C11_Witness ==
  /\ registered["c1"] /\ cpc["c1"] = "idle"
  /\ lastRet["c1"] = Ret("get_server_config", "Config")

\* C12: the configuration in force changes only when a config pull returns the
\* body of a 200 answer, and then to that body as a whole; a pull that fails
\* leaves every field as it was.
C12_ConfigAtomic ==
  [][\A c \in Clients :
       /\ config'[c] # config[c]
          => /\ cpc[c] = "get_server_config" /\ pending[c].pc = "done"
             /\ pending[c].resp.status = 200
             /\ config'[c] = pending[c].resp.config
       /\ (cpc[c] = "get_server_config" /\ cpc'[c] = "idle"
             /\ lastRet'[c].val = "None")
          => config'[c] = config[c]]_vars

\* a pull replaced the bootstrap configuration and a later pull failed
C12_Witness ==
  /\ config["c1"] = ServerConfig(1) /\ cpc["c1"] = "idle"
  /\ lastRet["c1"] = Ret("get_server_config", "None")
  /\ faults < MaxFaults

WellFormed(cfg) == DOMAIN cfg = ConfigFields

\* C13: a config pull whose 200 answer is no well-formed configuration returns
\* None and leaves the configuration in force.
C13_MalformedRejected ==
  [][\A c \in Clients :
       (cpc[c] = "get_server_config" /\ cpc'[c] = "idle" /\ pending[c].pc = "done"
          /\ pending[c].resp.status = 200 /\ ~WellFormed(pending[c].resp.config))
       => lastRet'[c].val = "None" /\ config'[c] = config[c]]_vars

\* C14: the configuration a config pull is answered with carries the
\* discovery_interval stored for the agent on the server.
C14_PullReturnsStored ==
  [][\A c \in Clients :
       (pending[c] # NoReq /\ pending[c].kind = "config" /\ pending[c].pc = "new"
          /\ pending'[c] # NoReq /\ pending'[c].pc = "done"
          /\ pending'[c].resp.status = 200
          /\ agent_configs[AgentRowOf(c).id] # NoConfig)
       => pending'[c].resp.config.discovery_interval
            = agent_configs[AgentRowOf(c).id].discovery_interval]_vars

\* C15: a restart leaves the api_key in use as it was before the restart.
C15_IdentitySurvivesRestart ==
  [][\A c \in Clients :
       (cpc[c] = "idle" /\ cpc'[c] = "idle" /\ calls' < calls
          /\ lastRet'[c] = Ret("init", None))
       => api_key'[c] = api_key[c]]_vars

\* C16: whatever registration attempts overlap, the api_key an agent holds is
\* the api_key of the one agents row of its agent_id, and the key in its key
\* file is the key it holds.
C16_AuthoritativeKey ==
  \A c \in Clients :
    /\ Truthy(api_key[c])
       => \E r \in agents : /\ r.api_key = api_key[c]
                            /\ AgentRows(agent_id(c)) = {r}
    /\ Truthy(keyFile[c]) => keyFile[c] = api_key[c]

\* two attempts for a1 reached the INSERT, one was rejected, both have ended
\* and the agent holds and has saved the stored key
C16_Witness ==
  /\ agentSeq >= 2 /\ \A r \in agents : r.agent_id = "a1"
  /\ pending["c1"] = NoReq /\ orphans = EmptyBag
  /\ Truthy(api_key["c1"]) /\ keyFile["c1"] = api_key["c1"]
  /\ \E r \in agents : r.api_key = api_key["c1"]

\* C17: no timer has more than one cycle in progress; a tick on a Running
\* timer starts nothing and leaves the cycle as it is; a cycle starts only on
\* a tick, so the end of a cycle leaves the timer Idle.
C17_OneCyclePerTimer ==
  [][\A k \in Kinds :
       /\ running[k] <= 1 /\ running'[k] <= 1
       /\ (running[k] = 1 /\ ticks'[k] > ticks[k])
          => running'[k] = 1 /\ cycles'[k] = cycles[k] /\ todo'[k] = todo[k]
       /\ (running'[k] > running[k] \/ cycles'[k] > cycles[k]) => ticks'[k] > ticks[k]
       /\ running'[k] < running[k] => running'[k] = 0]_vars

\* the discovery timer skipped a tick and is Idle again
C17_Witness ==
  /\ ticks["discovery"] = 2 /\ cycles["discovery"] = 1 /\ running["discovery"] = 0

\* C18: a cycle has started only if the configuration file is loaded and a
\* register() call has returned.
C18_StartAfterRegistration ==
  \A k \in Kinds :
    cycles[k] > 0 => loaded /\ lastRet["c1"].op = "register"

\* cycles run after a registration attempt that failed
C18_Witness ==
  /\ cycles["polling"] > 0 /\ lastRet["c1"] = Ret("register", "False")
  /\ ~registered["c1"]

\* the MetricSamples the Local Store holds for a printer in a polling cycle
SamplesOf(ip, cyc) ==
  {s \in BagToSet(store_metrics) : s.ip_address = ip /\ s.cycle = cyc}

\* C19: for every poll that timed out or found the printer unreachable, the
\* Local Store holds exactly one MetricSample of that cycle, with status
\* "offline" and neither page_count nor toner_levels.
C19_OfflineRecorded ==
  \A p \in polls :
    p.outcome # "ok"
    => /\ Cardinality(SamplesOf(p.ip, p.cycle)) = 1
       /\ \A s \in SamplesOf(p.ip, p.cycle) :
            /\ CopiesIn(s, store_metrics) = 1
            /\ s.status = "offline"
            /\ s.page_count = NoCount
            /\ s.toner_levels = NoToner

\* a printer was polled in two cycles and timed out in the second
C19_Witness ==
  \E p \in polls, q \in polls :
    /\ p.ip = q.ip /\ p.cycle = 1 /\ q.cycle = 2
    /\ p.outcome = "ok" /\ q.outcome = "timeout"
    /\ running["polling"] = 0

\* the addresses of a subnet other than its first and its last
UsableHosts ==
  UNION {{a \in n.base .. (n.base + 3) : a # n.base /\ a # n.base + 3} : n \in subnets}

\* C20: the Local Store holds one PrinterIdentity for each usable host that
\* answered an identity OID and none for any other address; once a discovery
\* cycle has ended every usable host has been probed.
C20_ExactlyAnsweringHosts ==
  /\ {r.ip_address : r \in store_printers}
       = {p.ip : p \in {q \in probes : q.answered # {}}} \cap UsableHosts
  /\ Cardinality(store_printers) = Cardinality({r.ip_address : r \in store_printers})
  /\ (cycles["discovery"] > 0 /\ running["discovery"] = 0)
     => \A a \in UsableHosts : \E p \in probes : p.ip = a

\* 192.168.1.0/30: .1 answered, .2 timed out, one record, for .1
C20_Witness ==
  /\ subnets = {Net(0, 30)}
  /\ cycles["discovery"] = 1 /\ running["discovery"] = 0
  /\ probes = {[ip |-> 1, answered |-> {"sysDescr"}], [ip |-> 2, answered |-> {}]}
  /\ store_printers = {[ip_address |-> 1, serial_number |-> None, model |-> None]}

C22_AppendOnly ==
  [][/\ Len(metrics') <= Len(metrics) + 1
     /\ \A k \in DOMAIN metrics : k \in DOMAIN metrics' /\ metrics'[k] = metrics[k]
     /\ Len(metrics') > Len(metrics)
        => \E h \in AllHandlers :
             /\ h.kind = "data" /\ h.pc = "m_insert" /\ h.body.type = "metrics"
             /\ metrics'[Len(metrics')].printer_id = h.body.printer_id
             /\ metrics'[Len(metrics')].timestamp = h.body.data.timestamp
             /\ metrics'[Len(metrics')].status = h.body.data.status]_vars

\* two successful pushes of different samples for one printer: two rows
C22_Witness ==
  /\ Len(metrics) = 2 /\ metrics[1].printer_id = metrics[2].printer_id
  /\ metrics[1].status # metrics[2].status
  /\ Cardinality(acked.metrics) = 2
  /\ lastRet["c1"] = Ret("send_metrics", "True")

\* a step is the server answering the request client c waits for
Answered(c) ==
  /\ pending[c] # NoReq /\ pending[c].pc # "done"
  /\ pending'[c] # NoReq /\ pending'[c].pc = "done"

\* the handlers that are at a statement writing printers or metrics
Writers ==
  {h \in AllHandlers : h.kind = "data" /\ h.pc \in {"m_insert", "m_update", "p_update", "p_insert"}}

PrintersOfB == {r \in printers : r.agent = 2}
MetricsOfB == SelectSeq(metrics, LAMBDA m : \E r \in PrintersOfB : r.id = m.printer_id)

Rejectable(b) ==
  \/ b.type = None \/ ~b.hasData
  \/ b.type \notin {"metrics", "printer_discovery", "printer_update"}
  \/ b.type # "metrics" /\ b.data.ip_address \in {None, Missing}

RowsOf(pid) == {k \in DOMAIN metrics : metrics[k].printer_id = pid}

\* C25: when no request is in progress and no fault has occurred, the status
\* of every printer that has metrics is the status of one of its rows with the
\* greatest timestamp.
C25_StatusIsLatest ==
  (AllHandlers = {} /\ faults = MaxFaults)
  => \A r \in printers :
       RowsOf(r.id) # {}
       => \E k \in RowsOf(r.id) :
            /\ \A j \in RowsOf(r.id) : metrics[j].timestamp <= metrics[k].timestamp
            /\ r.status = metrics[k].status

\* C26: no request to the data or config endpoint is ever in progress without
\* an api_key in it; a call of send_printer_data, send_metrics or
\* get_server_config made while the agent holds no api_key returns False
\* (None for get_server_config) in the same step, sends nothing and leaves
\* the agent's key, key file, samples, clock and configuration as they are.
C26_NoKeyNoRequest ==
  /\ [](\A h \in AllHandlers :
          h.kind \in {"data", "config"} => h.body.key \notin {None, ""})
  /\ [][(api_key["c1"] \in {None, ""} /\ cpc["c1"] = "idle" /\ calls' < calls
           /\ cpc'["c1"] # "register" /\ lastRet'["c1"].op # "init")
        => /\ pending' = pending /\ orphans' = orphans /\ cpc'["c1"] = "idle"
           /\ lastRet'["c1"] \in {Ret("send_printer_data", "False"),
                                  Ret("send_metrics", "False"),
                                  Ret("get_server_config", "None")}
           /\ UNCHANGED <<api_key, registered, keyFile, samples, clock, tried, config>>]_vars

\* an agent whose key file was left empty and who restarted asks for its
\* configuration
C26_Witness ==
  /\ api_key["c1"] = "" /\ keyFile["c1"] = ""
  /\ lastRet["c1"] = Ret("get_server_config", "None")
  /\ pending["c1"] = NoReq /\ cpc["c1"] = "idle"

\* C27: after any interleaving of user-management requests that carry valid
\* tokens, at least one user with role admin exists
C27_AnAdminRemains == \E u \in users : u.role = "admin"

\* the records a step updated: the row with this id is kept and differs
UpdatedIds == {u.id : u \in {r \in users : \E v \in users' : v.id = r.id /\ v # r}}

\* C28: a role changes, and a record other than the requester's own is
\* updated, only in a step of a request whose sender is an admin in
\* the users table at that moment
C28_RoleChangesNeedAdmin ==
  [][(UpdatedIds \ {actor'.id} # {})
       \/ (\E u \in users, v \in users' : u.id = v.id /\ u.role # v.role)
       => \E a \in users : a.id = actor'.id /\ a.role = "admin"]_vars

\* C30: in the web client isAuthenticated is true only while a current user is
\* set and localStorage holds the token of that user's session
C30_AuthenticatedHasSession ==
  isAuthenticated =>
    /\ currentUser # Null
    /\ stored # None
    /\ currentUser = Session(stored)
====
